---- MODULE Spec2Model ----
(***************************************************************************)
(* A model of rogue_utils: the integer coordinate kernel (coord.rs), the   *)
(* dense Grid (grid/mod.rs), the sparse Region (grid/region.rs) and the    *)
(* A* search (grid/path.rs).                                               *)
(*                                                                         *)
(* A V2i is the pair <<x, y>>.  Coordinates are mathematical integers: the *)
(* bounds below keep every value far from the limits of isize, so no       *)
(* arithmetic of the model wraps or overflows.                             *)
(***************************************************************************)
EXTENDS Integers, Sequences, FiniteSets, TLC

VARIABLES
    grid,       \* GridSpec: the Grid under test (NoGrid before construction)
    gcalls,     \* GridSpec: the points the per-point generator was invoked with, in order
    gop,        \* GridSpec: the last Grid operation and its arguments
    gret        \* GridSpec: the result of the last Grid operation

VARIABLES
    grid_size,  \* Region.grid_size
    grid_gen,   \* Region.grid_gen: NoGen, or the generator configured
    grids,      \* Region.grids: chunk coordinate -> Grid
    rpanic,     \* TRUE once an unwrap() in Region has panicked
    rcalls,     \* history: the argument tuples grid_gen was invoked with, in order
    allocs,     \* history: the points passed to an allocating access, in order
    written,    \* history: point -> the value last written through get_mut
    rop,        \* the last Region operation and its arguments
    rret        \* the result of the last Region operation

VARIABLES
    ptopo,      \* path: the topology N, "L1" or "Linf"
    pmode,      \* path: the caller, "grid" (Grid::path) or "region_mut" (Region::path_mut)
    pgrid,      \* path: the Grid that Grid::path searches
    pstart,     \* path: start
    pgoal,      \* path: goal
    back,       \* path: the HashMap back, point -> predecessor
    cost,       \* path: the HashMap cost, point -> best known cost
    open,       \* path: the BinaryHeap open, as the set of its entries [node, cost]
    pc,         \* path: "idle", "search" (in the while loop) or "done" (returned)
    presult     \* path: the value returned

gvars == <<grid, gcalls, gop, gret>>

pvars == <<ptopo, pmode, pgrid, pstart, pgoal, back, cost, open, pc, presult>>

rvars == <<grid_size, grid_gen, grids, rpanic, rcalls, allocs, written, rop, rret>>

vars == <<gvars, rvars, pvars>>

\* ---------------------------------------------------------------- bounds

\* Origins and query points of GridSpec range over -MaxOrigin .. MaxOrigin.
MaxOrigin == 1

\* Grid dimensions of GridSpec range over -1 .. MaxDim in each axis.
MaxDim == 2

\* Points handed to Region operations range over -MaxCoord .. MaxCoord.
MaxCoord == 1

\* Region.grid_size ranges over 1 .. MaxGridSize in each axis.
MaxGridSize == 2

\* Values written through Region::get_mut range over 1 .. MaxValue.
MaxValue == 2

\* Points handed to get_grid_index / get_grid_offset in ChunkSpec range over
\* -MaxWide .. MaxWide.
MaxWide == 5

\* The strip grids of PathSpec have StripWidth columns.
StripWidth == 3

\* Region::path_mut is called with goals at most PathReach from start in each axis.
PathReach == 2

\* A run of RegionSpec makes at most MaxAllocs allocating accesses.
MaxAllocs == 2

\* usize is modelled UsizeBits wide (64 on the usual targets): products of two
\* dimensions wrap at 2^UsizeBits as they do at 2^64.
UsizeBits == 4

\* Vectors handed to Grid::from_vec in VecSpec have at most MaxElements elements.
MaxElements == 2

\* ------------------------------------------------------- coordinate kernel

V2i(x, y) == <<x, y>>

Abs(a) == IF a < 0 THEN -a ELSE a

VAdd(a, b) == V2i(a[1] + b[1], a[2] + b[2])

VSub(a, b) == V2i(a[1] - b[1], a[2] - b[2])

VMul(a, b) == V2i(a[1] * b[1], a[2] * b[2])

l1(v) == Abs(v[1]) + Abs(v[2])

is_q1(v) == v[1] >= 0 /\ v[2] >= 0

is_strict_q1(v) == v[1] > 0 /\ v[2] > 0

\* Rust's `/` on isize: the quotient truncated toward zero (b # 0).
TruncDiv(a, b) ==
    IF (a >= 0) = (b >= 0) THEN Abs(a) \div Abs(b) ELSE -(Abs(a) \div Abs(b))

\* Rust's `%` on isize: the remainder takes the sign of the dividend.
TruncRem(a, b) == a - b * TruncDiv(a, b)

\* isize::div_euclid: the truncated quotient, stepped away when the remainder is negative.
IDivEuclid(a, b) ==
    LET q == TruncDiv(a, b)
    IN  IF TruncRem(a, b) < 0 THEN (IF b > 0 THEN q - 1 ELSE q + 1) ELSE q

\* rem_euclid with % in its place.
IRemEuclid_trunc(a, b) == TruncRem(a, b)

\* isize::rem_euclid: the truncated remainder, plus |b| when it is negative.
IRemEuclid(a, b) ==
    LET r == TruncRem(a, b)
    IN  IF r < 0 THEN r + Abs(b) ELSE r

div_euclid(v, o) == V2i(IDivEuclid(v[1], o[1]), IDivEuclid(v[2], o[2]))

rem_euclid(v, o) == V2i(IRemEuclid(v[1], o[1]), IRemEuclid(v[2], o[2]))

\* R2i::origin_dim: a negative dimension is flipped and the origin moved.
origin_dim(origin, dim) ==
    LET d0 == IF dim[1] < 0 THEN -dim[1] ELSE dim[1]
        o0 == IF dim[1] < 0 THEN origin[1] - d0 ELSE origin[1]
        d1 == IF dim[2] < 0 THEN -dim[2] ELSE dim[2]
        o1 == IF dim[2] < 0 THEN origin[2] - d1 ELSE origin[2]
    IN  [origin |-> V2i(o0, o1), dim |-> V2i(d0, d1)]

opp(rect) == VAdd(rect.origin, rect.dim)

\* R2iIter::next, run to exhaustion from `current`: the points it yields, in order.
\* The end test looks at the row only; the column wraps after the increment.
RECURSIVE R2iIterFrom(_, _)
R2iIterFrom(rect, current) ==
    IF current[2] >= opp(rect)[2]
    THEN <<>>
    ELSE LET x1 == current[1] + 1
             nxt == IF x1 >= opp(rect)[1]
                    THEN V2i(rect.origin[1], current[2] + 1)
                    ELSE V2i(x1, current[2])
         IN  <<current>> \o R2iIterFrom(rect, nxt)

\* R2i::iter, collected.
R2iIter(rect) == R2iIterFrom(rect, rect.origin)

\* ------------------------------------------------------------------- Grid

Res(tag, val) == [tag |-> tag, val |-> val]

Ok(val) == Res("Ok", val)

IsOk(r) == r.tag = "Ok"

NoGrid == [origin |-> V2i(0, 0), dim |-> V2i(-1, -1), array |-> <<>>]

UsizeModulus == 2 ^ UsizeBits

\* `a * b` on usize without overflow checks (the release profile): the product wraps.
usize_mul(a, b) == (a * b) % UsizeModulus

\* `a * b` overflows usize: with overflow checks (the debug profile) it panics.
usize_mul_overflows(a, b) == a * b >= UsizeModulus

\* Grid::from_boxed_slice (and from_vec, which only converts the vector).
from_boxed_slice(array, origin, dim) ==
    IF ~is_q1(dim) THEN Res("NegativeDim", dim)
    ELSE IF usize_mul(dim[1], dim[2]) # Len(array) THEN Res("BadDim", <<dim, Len(array)>>)
    ELSE Ok([array |-> array, origin |-> origin, dim |-> dim])

from_vec(v, origin, dim) == from_boxed_slice(v, origin, dim)

\* Grid::from_vec under a build profile: with overflow checks the product of the
\* dimensions panics where it would wrap.
from_vec_profile(overflow_checks, v, origin, dim) ==
    IF is_q1(dim) /\ overflow_checks /\ usize_mul_overflows(dim[1], dim[2])
    THEN Res("Panic", dim)
    ELSE from_vec(v, origin, dim)

\* The invocations Grid::from_generator makes of its generator, in order.
from_generator_calls(origin, dim) ==
    IF ~is_q1(dim) THEN <<>> ELSE R2iIter(origin_dim(origin, dim))

\* The per-point generators handed to Grid::from_generator: |g| g.l1() of
\* test::generator_grid, and a closure returning a captured constant c (the shape
\* of |_| r.l1() and |_| i.l1() of test::generator_region / generator_invoker).
GenL1 == [kind |-> "l1", c |-> 0]

GenConst(c) == [kind |-> "const", c |-> c]

GenApply(gen, p) == IF gen.kind = "l1" THEN l1(p) ELSE gen.c

\* Grid::from_generator: the generator is mapped over the rectangle's iterator and
\* the collected elements are handed to from_boxed_slice.
from_generator(gen, origin, dim) ==
    IF ~is_q1(dim) THEN Res("NegativeDim", dim)
    ELSE LET pts == R2iIter(origin_dim(origin, dim))
         IN  from_boxed_slice([i \in 1 .. Len(pts) |-> GenApply(gen, pts[i])], origin, dim)

\* Grid::from_default; the element type's default value is 0 (isize).
DefaultValue == 0

from_default(origin, dim) ==
    IF ~is_q1(dim) THEN Res("NegativeDim", dim)
    ELSE from_vec([i \in 1 .. usize_mul(dim[1], dim[2]) |-> DefaultValue], origin, dim)

\* Grid::index_of; indices are 0-based as in the source.
index_of(g, v) ==
    LET d == VSub(v, g.origin)
    IN  IF d[1] < 0 \/ d[2] < 0 \/ d[1] >= g.dim[1] \/ d[2] >= g.dim[2]
        THEN Res("OutOfBounds", v)
        ELSE Ok(d[2] * g.dim[1] + d[1])

\* v2i_of without the final `+ self.origin`.
v2i_of_no_origin(g, index) ==
    IF index >= Len(g.array) THEN Res("BadIndex", index)
    ELSE Ok(V2i(index % g.dim[1], index \div g.dim[1]))

\* Grid::v2i_of; usize rem_euclid/div_euclid are the plain remainder and quotient.
v2i_of(g, index) ==
    IF index >= Len(g.array) THEN Res("BadIndex", index)
    ELSE Ok(VAdd(V2i(index % g.dim[1], index \div g.dim[1]), g.origin))

contains(g, v) == IsOk(index_of(g, v))

\* Grid::get; array[i] of the source is array[i + 1] of the sequence, and
\* indexing past the end of the slice panics.
grid_get(g, v) ==
    LET i == index_of(g, v)
    IN  IF ~IsOk(i) THEN i
        ELSE IF i.val + 1 \in DOMAIN g.array THEN Ok(g.array[i.val + 1])
        ELSE Res("Panic", i.val)

\* Grid::get_mut followed by an assignment through the reference: the new grid.
grid_set(g, v, x) ==
    LET i == index_of(g, v)
    IN  IF IsOk(i) THEN Ok([g EXCEPT !.array[i.val + 1] = x]) ELSE i

\* The state of the path variables while no search is running.
PathIdle ==
    /\ ptopo = "L1"
    /\ pmode = "grid"
    /\ pgrid = NoGrid
    /\ pstart = V2i(0, 0)
    /\ pgoal = V2i(0, 0)
    /\ back = <<>>
    /\ cost = <<>>
    /\ open = {}
    /\ pc = "idle"
    /\ presult = Res("None", 0)

NoOp == [op |-> "none"]

NoRet == Res("None", 0)

GridIdle ==
    /\ grid = NoGrid
    /\ gcalls = <<>>
    /\ gop = NoOp
    /\ gret = NoRet

\* ----------------------------------------------------------------- Region

NoGen == [kind |-> "none"]

\* The chunk generators a Region is configured with.  The first three are the ones
\* of test::generator_grid, generator_region and generator_invoker; the fourth has
\* the same type and builds its chunk at a fixed origin instead of the origin it is
\* given, which nothing in RegionConfig or Region checks.
GenPoint == [kind |-> "point"]

GenRegion == [kind |-> "region"]

GenInvoker == [kind |-> "invoker"]

GenUnanchored == [kind |-> "unanchored"]

\* A call gen(i, r, o, d) of the configured generator: the Grid it returns.
GridGenApply(gen, i, r, o, d) ==
    CASE gen.kind = "point" -> from_generator(GenL1, o, d).val
      [] gen.kind = "region" -> from_generator(GenConst(l1(r)), o, d).val
      [] gen.kind = "invoker" -> from_generator(GenConst(l1(i)), o, d).val
      [] gen.kind = "unanchored" -> from_default(V2i(0, 0), d).val

\* RegionConfig::build.
build(gs, gen) ==
    IF ~is_strict_q1(gs) THEN Res("NonPositiveDim", gs)
    ELSE Ok([grid_size |-> gs, grids |-> <<>>, grid_gen |-> gen])

\* Region::get_grid_index with / in place of div_euclid.
get_grid_index_trunc(v) == V2i(TruncDiv(v[1], grid_size[1]), TruncDiv(v[2], grid_size[2]))

get_grid_index(v) == div_euclid(v, grid_size)

get_grid_offset(v) == rem_euclid(v, grid_size)

\* The chunk Region::get_grid_mut inserts for v when the entry is vacant.
new_chunk(v) ==
    LET gi == get_grid_index(v)
        gs == grid_size
    IN  IF grid_gen # NoGen
        THEN GridGenApply(grid_gen, v, gi, VMul(gi, gs), gs)
        ELSE from_default(VMul(gi, gs), gs).val

\* get_grid_mut with insert(..) in place of entry(gi).or_insert_with(..): an
\* existing chunk is replaced by a new one.
get_grid_mut_replace(v) == (get_grid_index(v) :> new_chunk(v)) @@ grids

\* entry(gi).or_insert_with(..) on the map m.
get_grid_mut_in(m, v) ==
    LET gi == get_grid_index(v)
    IN  IF gi \in DOMAIN m THEN m ELSE m @@ (gi :> new_chunk(v))

\* Region::get_grid_mut: the map after entry(gi).or_insert_with(..).
get_grid_mut(v) == get_grid_mut_in(grids, v)

\* The invocations with or_insert(gen(..)) in place of or_insert_with(|| gen(..)):
\* the generator runs on every access.
get_grid_mut_calls_eager(v) ==
    LET gi == get_grid_index(v)
    IN  IF grid_gen # NoGen
        THEN Append(rcalls, <<v, gi, VMul(gi, grid_size), grid_size>>)
        ELSE rcalls

\* The generator invocations after get_grid_mut(v).
get_grid_mut_calls(v) ==
    LET gi == get_grid_index(v)
    IN  IF gi \notin DOMAIN grids /\ grid_gen # NoGen
        THEN Append(rcalls, <<v, gi, VMul(gi, grid_size), grid_size>>)
        ELSE rcalls

\* Region::get_grid: None, or the chunk.
get_grid(v) ==
    LET gi == get_grid_index(v)
    IN  IF gi \in DOMAIN grids THEN Res("Some", grids[gi]) ELSE Res("None", 0)

\* Region::get: None, Some(element), or the panic of unwrap() on OutOfBounds.
region_get(v) ==
    LET g == get_grid(v)
    IN  IF g.tag = "None" THEN g
        ELSE LET e == grid_get(g.val, v)
             IN  IF IsOk(e) THEN Res("Some", e.val) ELSE Res("Panic", e)

\* Region::grids.
grids_len == Cardinality(DOMAIN grids)

\* Region::get_mut(v): the map after the access, and the element reference or the
\* panic of unwrap() on OutOfBounds.
get_mut(v) ==
    LET gs1 == get_grid_mut(v)
        e == grid_get(gs1[get_grid_index(v)], v)
    IN  [grids |-> gs1, ret |-> IF IsOk(e) THEN Res("Ref", e.val) ELSE Res("Panic", e)]

\* Region::get_or_create on the map m, as the closure of path_mut calls it
\* repeatedly within one loop of the search.
get_or_create_in(m, v) ==
    CHOOSE out \in
        {[grids |-> gs1,
          ret |-> IF IsOk(grid_get(gs1[get_grid_index(v)], v))
                  THEN Res("Ref", grid_get(gs1[get_grid_index(v)], v).val)
                  ELSE Res("Panic", grid_get(gs1[get_grid_index(v)], v))]
            : gs1 \in {get_grid_mut_in(m, v)}} : TRUE

\* `*region.get_mut(v) = x`: the map after the assignment.
get_mut_assign(v, x) ==
    LET gs1 == get_grid_mut(v)
        gi == get_grid_index(v)
        w == grid_set(gs1[gi], v, x)
    IN  [grids |-> IF IsOk(w) THEN [gs1 EXCEPT ![gi] = w.val] ELSE gs1,
         ret |-> IF IsOk(w) THEN Res("Ref", x) ELSE Res("Panic", w)]

\* Region::get_or_create: get_mut, downgraded.
get_or_create(v) == get_mut(v)

\* ------------------------------------------------------------- RegionSpec
\* One Region, from RegionConfig::build on, under any sequence of accesses.

RegionCoords == -MaxCoord .. MaxCoord

RegionPoints == RegionCoords \X RegionCoords

GridSizes == (0 .. MaxGridSize) \X (0 .. MaxGridSize)

RegionGens == {NoGen, GenPoint, GenRegion, GenInvoker, GenUnanchored}

Values == 1 .. MaxValue

RegionFresh(gs, gen) ==
    LET r == build(gs, gen)
    IN  /\ IsOk(r)
        /\ grid_size = r.val.grid_size
        /\ grid_gen = r.val.grid_gen
        /\ grids = r.val.grids
        /\ rpanic = FALSE
        /\ rcalls = <<>>
        /\ allocs = <<>>
        /\ written = <<>>
        /\ rop = NoOp
        /\ rret = NoRet

RegionIdle == RegionFresh(V2i(1, 1), NoGen)

RegionInit ==
    /\ GridIdle
    /\ PathIdle
    /\ \E gs \in GridSizes, gen \in RegionGens : RegionFresh(gs, gen)

\* The history kept beside an allocating access at v.
Allocating(v) ==
    /\ ~rpanic
    /\ Len(allocs) < MaxAllocs
    /\ allocs' = Append(allocs, v)
    /\ rcalls' = get_grid_mut_calls(v)
    /\ UNCHANGED <<grid_size, grid_gen, gvars, pvars>>

RGetGridMut(v) ==
    /\ Allocating(v)
    /\ grids' = get_grid_mut(v)
    /\ rop' = [op |-> "get_grid_mut", p |-> v]
    /\ rret' = Res("Grid", get_grid_mut(v)[get_grid_index(v)])
    /\ UNCHANGED <<written, rpanic>>

RGetMut(v, x) ==
    LET r == get_mut_assign(v, x)
    IN  /\ Allocating(v)
        /\ grids' = r.grids
        /\ rop' = [op |-> "get_mut", p |-> v, x |-> x]
        /\ rret' = r.ret
        /\ rpanic' = (r.ret.tag = "Panic")
        /\ written' = IF r.ret.tag = "Panic" THEN written ELSE (v :> x) @@ written

RGetOrCreate(v) ==
    LET r == get_or_create(v)
    IN  /\ Allocating(v)
        /\ grids' = r.grids
        /\ rop' = [op |-> "get_or_create", p |-> v]
        /\ rret' = r.ret
        /\ rpanic' = (r.ret.tag = "Panic")
        /\ UNCHANGED written

RGet(v) ==
    /\ ~rpanic
    /\ rop' = [op |-> "get", p |-> v]
    /\ rret' = region_get(v)
    /\ rpanic' = (rret'.tag = "Panic")
    /\ UNCHANGED <<grid_size, grid_gen, grids, rcalls, allocs, written, gvars, pvars>>

RGetGrid(v) ==
    /\ ~rpanic
    /\ rop' = [op |-> "get_grid", p |-> v]
    /\ rret' = get_grid(v)
    /\ UNCHANGED <<grid_size, grid_gen, grids, rpanic, rcalls, allocs, written, gvars, pvars>>

RGetGridIndex(v) ==
    /\ rop' = [op |-> "get_grid_index", p |-> v]
    /\ rret' = Ok(get_grid_index(v))
    /\ UNCHANGED <<grid_size, grid_gen, grids, rpanic, rcalls, allocs, written, gvars, pvars>>

RGetGridOffset(v) ==
    /\ rop' = [op |-> "get_grid_offset", p |-> v]
    /\ rret' = Ok(get_grid_offset(v))
    /\ UNCHANGED <<grid_size, grid_gen, grids, rpanic, rcalls, allocs, written, gvars, pvars>>

RegionNext ==
    \/ \E v \in RegionPoints : RGetGridMut(v)
    \/ \E v \in RegionPoints, x \in Values : RGetMut(v, x)
    \/ \E v \in RegionPoints : RGetOrCreate(v)
    \/ \E v \in RegionPoints : RGet(v)
    \/ \E v \in RegionPoints : RGetGrid(v)

RegionSpec == RegionInit /\ [][RegionNext]_vars

\* ------------------------------------------------------------ ChunkSpec
\* The chunk addressing of a Region, on points far on both sides of the origin.

WideCoords == -MaxWide .. MaxWide

WidePoints == WideCoords \X WideCoords

ChunkNext ==
    \/ \E v \in WidePoints : RGetGridIndex(v)
    \/ \E v \in WidePoints : RGetGridOffset(v)

ChunkSpec == RegionInit /\ [][ChunkNext]_vars

\* ------------------------------------------------------------------- path

\* impl Neighbors<L1> for V2i and impl Neighbors<Linf> for V2i: the steps, in the
\* order they are pushed.
StepsL1 == <<V2i(1, 0), V2i(0, 1), V2i(-1, 0), V2i(0, -1)>>

\* The steps of Linf without the last one pushed, V2i(1, -1).
StepsLinf_seven ==
    <<V2i(1, 0), V2i(1, 1), V2i(0, 1), V2i(-1, 1),
      V2i(-1, 0), V2i(-1, -1), V2i(0, -1)>>

StepsLinf ==
    <<V2i(1, 0), V2i(1, 1), V2i(0, 1), V2i(-1, 1),
      V2i(-1, 0), V2i(-1, -1), V2i(0, -1), V2i(1, -1)>>

\* Both topologies stepping along the axes only.
Steps_axes_only(topo) == StepsL1

Steps(topo) == IF topo = "L1" THEN StepsL1 ELSE StepsLinf

neighbors(topo, p) == [i \in 1 .. Len(Steps(topo)) |-> VAdd(p, Steps(topo)[i])]

\* impl Traversable for isize (the tile type of the tests).
can_pass(tile) == tile = 0

\* The closure of Grid::path without the call of can_pass: every tile of the grid passes.
grid_allow_any_tile(g, pos) == IsOk(grid_get(g, pos))

\* The closure of Grid::path: a tile outside the grid is not passable.
grid_allow(g, pos) ==
    LET t == grid_get(g, pos)
    IN  IF IsOk(t) THEN can_pass(t.val) ELSE FALSE

\* The closure a caller hands to path, called on pos with the Region's map m: its
\* answer and the map afterwards.  Only path_mut changes the map.
allow(m, pos) ==
    IF pmode = "grid"
    THEN [pass |-> grid_allow(pgrid, pos), grids |-> m]
    ELSE CHOOSE out \in
            {[pass |-> r.ret.tag = "Ref" /\ can_pass(r.ret.val), grids |-> r.grids]
                : r \in {get_or_create_in(m, pos)}} : TRUE

\* The neighbour loop's body queueing by the heuristic alone, (neigh - goal).l1().
relax_allowed_greedy(st, cur, neigh, a) ==
    LET est == st.cost[cur] + 1
    IN  IF ~a.pass THEN [st EXCEPT !.grids = a.grids]
        ELSE IF neigh \notin DOMAIN st.cost \/ est < st.cost[neigh]
        THEN [cost |-> (neigh :> est) @@ st.cost,
              back |-> (neigh :> cur) @@ st.back,
              open |-> st.open \cup {[node |-> neigh, cost |-> l1(VSub(neigh, pgoal))]},
              grids |-> a.grids]
        ELSE [st EXCEPT !.grids = a.grids]

\* The neighbour loop's body without `if !allow(neigh) { continue; }`.
relax_allowed_unchecked(st, cur, neigh, a) ==
    LET est == st.cost[cur] + 1
    IN  IF neigh \notin DOMAIN st.cost \/ est < st.cost[neigh]
        THEN [cost |-> (neigh :> est) @@ st.cost,
              back |-> (neigh :> cur) @@ st.back,
              open |-> st.open \cup {[node |-> neigh, cost |-> est + l1(VSub(neigh, pgoal))]},
              grids |-> a.grids]
        ELSE [st EXCEPT !.grids = a.grids]

\* One turn of `for neigh in neighbors.drain(..)` for the node cur; st holds cost,
\* back, open and the Region's map, and a is what allow(neigh) answered.
relax_allowed(st, cur, neigh, a) ==
    LET est == st.cost[cur] + 1
    IN  IF ~a.pass THEN [st EXCEPT !.grids = a.grids]
        ELSE IF neigh \notin DOMAIN st.cost \/ est < st.cost[neigh]
        THEN [cost |-> (neigh :> est) @@ st.cost,
              back |-> (neigh :> cur) @@ st.back,
              open |-> st.open \cup {[node |-> neigh, cost |-> est + l1(VSub(neigh, pgoal))]},
              grids |-> a.grids]
        ELSE [st EXCEPT !.grids = a.grids]

relax(st, cur, neigh) ==
    CHOOSE out \in {relax_allowed(st, cur, neigh, a) : a \in {allow(st.grids, neigh)}} : TRUE

\* The whole neighbour loop for cur, from neighbour i on.  (The singleton sets
\* make each turn's state a value before the next turn reads it.)
RECURSIVE expand(_, _, _, _)
expand(st, cur, nbs, i) ==
    IF i > Len(nbs) THEN st
    ELSE CHOOSE out \in {expand(s1, cur, nbs, i + 1) : s1 \in {relax(st, cur, nbs[i])}} : TRUE

\* The reconstruction loop from `current`, with `path` pushed so far; it ends at
\* the first point without predecessor.  A walk longer than the map has keys
\* never ends: it is reported as Hang.
RECURSIVE reconstruct(_, _, _)
reconstruct(b, current, path) ==
    LET path1 == Append(path, current)
    IN  IF current \in DOMAIN b
        THEN IF Len(path1) > Cardinality(DOMAIN b) + 1
             THEN Res("Hang", 0)
             ELSE reconstruct(b, b[current], path1)
        ELSE Ok([i \in 1 .. Len(path1) |-> path1[Len(path1) + 1 - i]])

\* The entries BinaryHeap::pop may return: those of least cost (State compares by
\* cost alone, so the order among equal costs is the heap's business).
poppable == {e \in open : \A f \in open : e.cost <= f.cost}

\* path and its callers, up to the while loop: open and cost hold start.
PathCall(topo, mode, g, start, goal) ==
    /\ ptopo = topo
    /\ pmode = mode
    /\ pgrid = g
    /\ pstart = start
    /\ pgoal = goal
    /\ back = <<>>
    /\ cost = (start :> 0)
    /\ open = {[node |-> start, cost |-> 0]}
    /\ pc = "search"
    /\ presult = Res("None", 0)

\* A turn of the while loop that pops the goal: the path is rebuilt and returned.
VisitGoal(visit) ==
    /\ pc = "search"
    /\ visit \in poppable
    /\ visit.node = pgoal
    /\ open' = open \ {visit}
    /\ presult' = reconstruct(back, pgoal, <<>>)
    /\ pc' = "done"
    /\ UNCHANGED <<ptopo, pmode, pgrid, pstart, pgoal, back, cost, gvars, rvars>>

\* A turn of the while loop that pops another node: its neighbours are relaxed.
VisitExpand(visit) ==
    /\ pc = "search"
    /\ visit \in poppable
    /\ visit.node # pgoal
    /\ \E st0 \in {[cost |-> cost, back |-> back, open |-> open \ {visit}, grids |-> grids]} :
          \E st \in {expand(st0, visit.node, neighbors(ptopo, visit.node), 1)} :
              /\ cost' = st.cost
              /\ back' = st.back
              /\ open' = st.open
              /\ grids' = st.grids
    /\ UNCHANGED <<ptopo, pmode, pgrid, pstart, pgoal, pc, presult, gvars>>
    /\ UNCHANGED <<grid_size, grid_gen, rpanic, rcalls, allocs, written, rop, rret>>

\* The while loop ends on an empty heap: Err(Disconnected).
Fail ==
    /\ pc = "search"
    /\ open = {}
    /\ presult' = Res("Disconnected", 0)
    /\ pc' = "done"
    /\ UNCHANGED <<ptopo, pmode, pgrid, pstart, pgoal, back, cost, open, gvars, rvars>>

\* --------------------------------------------------------------- PathSpec
\* One call of Grid::path or Region::path_mut, from entry to return.

\* testing_grid() of path.rs: 0 is passable.
TestGrid ==
    [array |-> <<1, 1, 1, 1, 1,
                 1, 0, 0, 0, 1,
                 1, 0, 1, 0, 1,
                 1, 0, 1, 0, 1,
                 1, 1, 1, 1, 1>>,
     origin |-> V2i(0, 0), dim |-> V2i(5, 5)]

\* testing_grid() after `*grid.get_mut(V2i(2, 1)) = 1` (test::fails_when_disconnected).
TestGridBlocked == grid_set(TestGrid, V2i(2, 1), 1).val

\* A grid of 4 x 3 passable tiles but for (2, 1), built as testing_grid() is.
DetourGrid ==
    from_vec(<<0, 0, 0, 0,
               0, 0, 1, 0,
               0, 0, 0, 0>>, V2i(0, 0), V2i(4, 3)).val

\* Every grid of two rows and StripWidth columns of tiles 0 / 1, at the origin.
StripDim == V2i(StripWidth, 2)

StripGrids ==
    {from_vec(a, V2i(0, 0), StripDim).val : a \in [1 .. StripDim[1] * StripDim[2] -> {0, 1}]}

\* The points of a grid's rectangle.
RectPoints(g) ==
    {VAdd(g.origin, V2i(dx, dy)) : dx \in 0 .. g.dim[1] - 1, dy \in 0 .. g.dim[2] - 1}

Topologies == {"L1", "Linf"}

\* The goals of path_mut in PathSpec: start plus an offset of at most PathReach in
\* each axis.  Starts cover every position within a chunk.
ReachOffsets == (-PathReach .. PathReach) \X (-PathReach .. PathReach)

PathInit ==
    /\ GridIdle
    /\ \/ /\ RegionIdle
          /\ \E topo \in Topologies, g \in {TestGrid, TestGridBlocked, DetourGrid} \cup StripGrids :
                \E start \in RectPoints(g), goal \in RectPoints(g) :
                    PathCall(topo, "grid", g, start, goal)
       \/ \E gs \in GridSizes, topo \in Topologies :
             /\ RegionFresh(gs, NoGen)
             /\ \E start \in (0 .. gs[1] - 1) \X (0 .. gs[2] - 1), d \in ReachOffsets :
                   /\ get_grid_index(start) # get_grid_index(VAdd(start, d))
                   /\ PathCall(topo, "region_mut", NoGrid, start, VAdd(start, d))

PathNext ==
    \/ \E visit \in open : VisitGoal(visit)
    \/ \E visit \in open : VisitExpand(visit)
    \/ Fail

\* path runs to completion: a turn of its loop that can be taken is taken.
PathSpec == PathInit /\ [][PathNext]_vars /\ WF_vars(PathNext)

\* --------------------------------------------------------------- GridSpec
\* Grid construction and the Grid accessors, on small rectangles.

Coords == -MaxOrigin .. MaxOrigin

Origins == Coords \X Coords

Dims == (-1 .. MaxDim) \X (-1 .. MaxDim)

\* Query points: every point of every grid, and a margin of one around them.
GridPoints == (-MaxOrigin - 1 .. MaxOrigin + MaxDim) \X (-MaxOrigin - 1 .. MaxOrigin + MaxDim)

\* Query indices: every index of every grid, and two past the largest.
GridIndices == 0 .. MaxDim * MaxDim + 1

PointGens == {GenL1, GenConst(7)}

GridInit == GridIdle /\ RegionIdle /\ PathIdle

\* A run of GridSpec follows one Grid: it is constructed once, then queried.
GFromGenerator(gen, origin, dim) ==
    LET r == from_generator(gen, origin, dim)
    IN  /\ gop = NoOp
        /\ grid' = IF IsOk(r) THEN r.val ELSE NoGrid
        /\ gcalls' = from_generator_calls(origin, dim)
        /\ gop' = [op |-> "from_generator", gen |-> gen, origin |-> origin, dim |-> dim]
        /\ gret' = Res(r.tag, IF IsOk(r) THEN 0 ELSE r.val)
        /\ UNCHANGED <<rvars, pvars>>

GFromDefault(origin, dim) ==
    LET r == from_default(origin, dim)
    IN  /\ gop = NoOp
        /\ grid' = IF IsOk(r) THEN r.val ELSE NoGrid
        /\ gcalls' = <<>>
        /\ gop' = [op |-> "from_default", origin |-> origin, dim |-> dim]
        /\ gret' = Res(r.tag, IF IsOk(r) THEN 0 ELSE r.val)
        /\ UNCHANGED <<rvars, pvars>>

GIndexOf(p) ==
    /\ grid # NoGrid
    /\ gop' = [op |-> "index_of", p |-> p]
    /\ gret' = index_of(grid, p)
    /\ UNCHANGED <<grid, gcalls, rvars, pvars>>

GV2iOf(i) ==
    /\ grid # NoGrid
    /\ gop' = [op |-> "v2i_of", index |-> i]
    /\ gret' = v2i_of(grid, i)
    /\ UNCHANGED <<grid, gcalls, rvars, pvars>>

GGet(p) ==
    /\ grid # NoGrid
    /\ gop' = [op |-> "get", p |-> p]
    /\ gret' = grid_get(grid, p)
    /\ UNCHANGED <<grid, gcalls, rvars, pvars>>

\* Grid::from_vec, built with or without overflow checks.
GFromVec(overflow_checks, v, origin, dim) ==
    LET r == from_vec_profile(overflow_checks, v, origin, dim)
    IN  /\ gop = NoOp
        /\ grid' = IF IsOk(r) THEN r.val ELSE NoGrid
        /\ gcalls' = <<>>
        /\ gop' = [op |-> "from_vec", overflow_checks |-> overflow_checks,
                   v |-> v, origin |-> origin, dim |-> dim]
        /\ gret' = Res(r.tag, IF IsOk(r) THEN 0 ELSE r.val)
        /\ UNCHANGED <<rvars, pvars>>

GridNext ==
    \/ \E gen \in PointGens, o \in Origins, d \in Dims : GFromGenerator(gen, o, d)
    \/ \E o \in Origins, d \in Dims : GFromDefault(o, d)
    \/ \E p \in GridPoints : GIndexOf(p)
    \/ \E i \in GridIndices : GV2iOf(i)
    \/ \E p \in GridPoints : GGet(p)

GridSpec == GridInit /\ [][GridNext]_vars

\* ---------------------------------------------------------------- VecSpec
\* Grid::from_vec on vectors of any length and dims of any sign, then reads.

\* Dims from negative up to the least side whose square wraps usize.
VecDims == (-1 .. 2 ^ (UsizeBits \div 2)) \X (-1 .. 2 ^ (UsizeBits \div 2))

VecElements == {7, 8}

Vectors == UNION {[1 .. n -> VecElements] : n \in 0 .. MaxElements}

VecNext ==
    \/ \E c \in BOOLEAN, v \in Vectors, o \in Origins, d \in VecDims : GFromVec(c, v, o, d)
    \/ \E p \in GridPoints : GGet(p)

VecSpec == GridInit /\ [][VecNext]_vars

\* The rectangle [origin, origin + dim) of a grid.
InRect(origin, dim, p) ==
    /\ origin[1] <= p[1] /\ p[1] < origin[1] + dim[1]
    /\ origin[2] <= p[2] /\ p[2] < origin[2] + dim[2]

\* The lattice points of [origin, origin + dim) in row-major order (dim >= 0).
RowMajor(origin, dim) ==
    [k \in 1 .. dim[1] * dim[2] |->
        V2i(origin[1] + ((k - 1) % dim[1]), origin[2] + ((k - 1) \div dim[1]))]

\* C1: in every Grid (any origin, any non-negative dim) index_of(p) is
\* (p.y - origin.y) * dim.x + (p.x - origin.x) for the points of the rectangle and
\* OutOfBounds(p) for all others, v2i_of(i) is BadIndex(i) exactly for
\* i >= dim.x * dim.y, and the two are inverse to each other in both directions.
C1_IndexBijection ==
    grid # NoGrid =>
        /\ \A p \in GridPoints :
              IF InRect(grid.origin, grid.dim, p)
              THEN /\ index_of(grid, p)
                        = Ok((p[2] - grid.origin[2]) * grid.dim[1] + (p[1] - grid.origin[1]))
                   /\ v2i_of(grid, index_of(grid, p).val) = Ok(p)
              ELSE index_of(grid, p) = Res("OutOfBounds", p)
        /\ \A i \in GridIndices :
              IF i < grid.dim[1] * grid.dim[2]
              THEN /\ IsOk(v2i_of(grid, i))
                   /\ index_of(grid, v2i_of(grid, i).val) = Ok(i)
              ELSE v2i_of(grid, i) = Res("BadIndex", i)
        /\ (gop.op = "v2i_of" /\ IsOk(gret)) => index_of(grid, gret.val) = Ok(gop.index)
        /\ (gop.op = "index_of" /\ IsOk(gret)) => v2i_of(grid, gret.val) = Ok(gop.p)

\* A grid at a negative origin answered v2i_of for its last index.
C1_Witness ==
    /\ gop.op = "v2i_of"
    /\ IsOk(gret)
    /\ grid.origin = V2i(-1, -1)
    /\ grid.dim = V2i(2, 2)
    /\ gop.index = 3
    /\ gret.val = V2i(0, 0)

\* C9: Grid::from_generator fails only with NegativeDim and only for a dim with a
\* negative component; for every dim >= 0 (zero width or zero height included) it
\* returns Ok, having invoked the generator exactly once per lattice point of
\* [origin, origin + dim) in row-major order, and get(p) = gen(p) on the result.
C9_FromGenerator ==
    gop.op = "from_generator" =>
        /\ ~IsOk(gret) => (gret.tag = "NegativeDim" /\ ~is_q1(gop.dim))
        /\ is_q1(gop.dim) =>
              /\ IsOk(gret)
              /\ gcalls = RowMajor(gop.origin, gop.dim)
              /\ \A p \in GridPoints :
                    InRect(gop.origin, gop.dim, p)
                        => grid_get(grid, p) = Ok(GenApply(gop.gen, p))

\* floor(p / grid_size), componentwise (grid_size > 0).
FloorDiv(p) == V2i(p[1] \div grid_size[1], p[2] \div grid_size[2])

\* The chunk coordinates of the points passed to an allocating access so far.
Touched == {FloorDiv(allocs[i]) : i \in 1 .. Len(allocs)}

ReadOps == {"get", "get_grid"}

AllocOps == {"get_mut", "get_grid_mut", "get_or_create"}

\* C2, the states: the materialized chunks are exactly the chunks of the points
\* passed to an allocating access, and get(p) is None iff p's chunk is not among them.
C2_State ==
    /\ DOMAIN grids = Touched
    /\ \A p \in RegionPoints : (region_get(p).tag = "None") <=> (FloorDiv(p) \notin Touched)
    /\ rop.op = "get" => ((rret.tag = "None") <=> (FloorDiv(rop.p) \notin Touched))

\* C2, the steps: grids() grows by exactly one on the first allocating access to a
\* chunk, by zero on every later access to it and on every read-only access, and
\* no chunk ever leaves the map.
C2_Step ==
    /\ DOMAIN grids \subseteq DOMAIN grids'
    /\ rop'.op \in ReadOps => grids_len' = grids_len
    /\ rop'.op \in AllocOps =>
          grids_len' = grids_len + (IF FloorDiv(rop'.p) \in Touched THEN 0 ELSE 1)

\* C2: after any sequence of Region operations on a fresh Region the materialized
\* chunks are exactly those touched by an allocating access; get is None iff the
\* chunk is untouched; grids() grows by one on a first allocating access and by
\* zero otherwise, and never decreases.
C2_Materialized == [](C2_State) /\ [][C2_Step]_vars

\* Two allocating accesses to one chunk at a negative coordinate, then a get that
\* finds it.
C2_Witness ==
    /\ rop.op = "get"
    /\ rret.tag = "Some"
    /\ Len(allocs) = 2
    /\ allocs[1] # allocs[2]
    /\ grid_size = V2i(1, 2)
    /\ grids_len = 1
    /\ DOMAIN grids = {V2i(-1, 0)}

\* C3: in a default-filled Region get(p) returns the value most recently written
\* at p through get_mut, whatever was written at other points, and the default
\* value at a never-written point of a materialized chunk.
C3_RoundTrip ==
    grid_gen = NoGen =>
        /\ \A p \in RegionPoints :
              region_get(p) =
                  IF FloorDiv(p) \in DOMAIN grids
                  THEN Res("Some", IF p \in DOMAIN written THEN written[p] ELSE DefaultValue)
                  ELSE Res("None", 0)
        /\ rop.op = "get_mut" => (rret = Res("Ref", rop.x) /\ region_get(rop.p) = Res("Some", rop.x))
        /\ (rop.op = "get" /\ rop.p \in DOMAIN written) => rret = Res("Some", written[rop.p])

\* Two writes in one chunk across the origin's boundary, then a read of the first.
C3_Witness ==
    /\ grid_gen = NoGen
    /\ grid_size = V2i(2, 2)
    /\ allocs = <<V2i(-1, -1), V2i(-1, 0)>>
    /\ DOMAIN written = {V2i(-1, -1), V2i(-1, 0)}
    /\ written[V2i(-1, -1)] # written[V2i(-1, 0)]
    /\ rop = [op |-> "get", p |-> V2i(-1, -1)]
    /\ rret = Res("Some", written[V2i(-1, -1)])

\* C4: for every point p, negative components included,
\* get_grid_index(p) * grid_size + get_grid_offset(p) = p with the offset in
\* [0, grid_size), and a point q has p's chunk coordinate c iff q lies in
\* [c * grid_size, c * grid_size + grid_size).
C4_ChunkAddressing ==
    rop.op \in {"get_grid_index", "get_grid_offset"} =>
        LET p == rop.p
            c == IF rop.op = "get_grid_index" THEN rret.val ELSE get_grid_index(p)
            o == IF rop.op = "get_grid_offset" THEN rret.val ELSE get_grid_offset(p)
        IN  /\ VAdd(VMul(c, grid_size), o) = p
            /\ 0 <= o[1] /\ o[1] < grid_size[1]
            /\ 0 <= o[2] /\ o[2] < grid_size[2]
            /\ \A q \in WidePoints :
                  (get_grid_index(q) = c) <=> InRect(VMul(c, grid_size), grid_size, q)

\* The offset of a point with negative components, in chunks of 2 x 2.
C4_Witness ==
    /\ rop = [op |-> "get_grid_offset", p |-> V2i(-3, -1)]
    /\ grid_size = V2i(2, 2)
    /\ rret = Ok(V2i(1, 1))
    /\ get_grid_index(rop.p) = V2i(-2, -1)

\* The generator invocations C8 expects after the allocating accesses a[1 .. n]:
\* one per first access to a chunk, with (p, floor(p / gs), chunk * gs, gs).
RECURSIVE ExpectedCalls(_, _)
ExpectedCalls(a, n) ==
    IF n = 0 THEN <<>>
    ELSE LET prev == ExpectedCalls(a, n - 1)
             c == FloorDiv(a[n])
         IN  IF \E i \in 1 .. n - 1 : FloorDiv(a[i]) = c
             THEN prev
             ELSE Append(prev, <<a[n], c, VMul(c, grid_size), grid_size>>)

\* C8: with a generator configured, it is invoked exactly once per chunk, at the
\* first allocating access touching the chunk, with (the accessed point, its chunk
\* coordinate, chunk * grid_size, grid_size); reads and later accesses never invoke
\* it, and the chunk keeps what was generated then, but for the elements written.
C8_GeneratorOnce ==
    grid_gen # NoGen =>
        /\ rcalls = ExpectedCalls(allocs, Len(allocs))
        /\ Len(rcalls) = grids_len
        /\ \A k \in 1 .. Len(rcalls) :
              LET call == rcalls[k]
                  c == call[2]
                  g0 == GridGenApply(grid_gen, call[1], call[2], call[3], call[4])
              IN  /\ c \in DOMAIN grids
                  /\ grids[c].origin = g0.origin
                  /\ grids[c].dim = g0.dim
                  /\ \A p \in RegionPoints :
                        grid_get(grids[c], p) =
                            IF p \in DOMAIN written /\ FloorDiv(p) = c
                            THEN Ok(written[p])
                            ELSE grid_get(g0, p)

\* A chunk generated from its invoking point, then accessed from another point of
\* another norm: the element read is still the one generated for the first point.
C8_Witness ==
    /\ grid_gen = GenInvoker
    /\ grid_size = V2i(2, 2)
    /\ allocs = <<V2i(1, 1), V2i(0, 0)>>
    /\ Len(rcalls) = 1
    /\ rop = [op |-> "get_or_create", p |-> V2i(0, 0)]
    /\ rret = Res("Ref", 2)

\* C10: with or without a generator, every chunk stored under c covers exactly
\* [c * grid_size, c * grid_size + grid_size), so get_mut always succeeds, get on
\* an existing chunk yields Some, and no bounds-checked lookup reports OutOfBounds.
C10_ChunksCoverRect ==
    /\ \A c \in DOMAIN grids :
          grids[c].origin = VMul(c, grid_size) /\ grids[c].dim = grid_size
    /\ ~rpanic
    /\ rop.op \in {"get_mut", "get_or_create"} => rret.tag = "Ref"
    /\ (rop.op = "get" /\ FloorDiv(rop.p) \in DOMAIN grids) => rret.tag = "Some"

\* The passable cells of the 5 x 5 test grid, as C5 lists them.
RingCells ==
    {V2i(1, 1), V2i(2, 1), V2i(3, 1), V2i(1, 2), V2i(3, 2), V2i(1, 3), V2i(3, 3)}

\* The path returned (when presult is Ok).
ReturnedPath == presult.val

\* q is a point of g's rectangle whose tile, read off the row-major array, is 0.
PassableAt(g, q) ==
    /\ InRect(g.origin, g.dim, q)
    /\ g.array[(q[2] - g.origin[2]) * g.dim[1] + (q[1] - g.origin[1]) + 1] = 0

\* The candidate cells of the test grid: its rectangle and one cell around it.
AroundTestGrid == (-1 .. 5) \X (-1 .. 5)

\* C5: on the 5 x 5 test grid, whose passable cells are exactly RingCells, the
\* path from (1,3) to (3,3) is Ok with exactly 5 points under Linf and exactly 7
\* under L1, from (1,3) to (3,3), however the heap breaks ties.
C5_TestGridPaths ==
    /\ TestGrid.origin = V2i(0, 0) /\ TestGrid.dim = V2i(5, 5)
    /\ {p \in AroundTestGrid : PassableAt(TestGrid, p)} = RingCells
    /\ (/\ pc = "done"
        /\ pmode = "grid"
        /\ pgrid = TestGrid
        /\ pstart = V2i(1, 3)
        /\ pgoal = V2i(3, 3))
       => /\ presult.tag = "Ok"
          /\ Len(ReturnedPath) = (IF ptopo = "Linf" THEN 5 ELSE 7)
          /\ ReturnedPath[1] = V2i(1, 3)
          /\ ReturnedPath[Len(ReturnedPath)] = V2i(3, 3)

\* The 8-connected query of test::finds_linf_path has returned its 5 points.
C5_Witness ==
    /\ pc = "done"
    /\ pgrid = TestGrid
    /\ ptopo = "Linf"
    /\ pstart = V2i(1, 3)
    /\ pgoal = V2i(3, 3)
    /\ presult = Ok(<<V2i(1, 3), V2i(1, 2), V2i(2, 1), V2i(3, 2), V2i(3, 3)>>)

\* The moves of a topology: the unit steps along the axes, and for 8-connected
\* movement the diagonal ones too.
TopoSteps(topo) ==
    {d \in (-1 .. 1) \X (-1 .. 1) : d # V2i(0, 0) /\ (topo = "L1" => l1(d) = 1)}

\* The points reachable from the set S by topology steps onto passable tiles of g.
RECURSIVE ReachFrom(_, _, _)
ReachFrom(topo, g, S) ==
    LET N == S \cup {q \in {VAdd(p, d) : p \in S, d \in TopoSteps(topo)} : PassableAt(g, q)}
    IN  IF N = S THEN S ELSE ReachFrom(topo, g, N)

GoalReachable == pgoal \in ReachFrom(ptopo, pgrid, {pstart})

\* C6, the result: Disconnected iff the goal is not reachable from start through
\* passable points, Ok otherwise; Disconnected on the blocked test grid.
C6_Result ==
    (pc = "done" /\ pmode = "grid") =>
        /\ (presult.tag = "Disconnected") <=> ~GoalReachable
        /\ GoalReachable => presult.tag = "Ok"
        /\ (pgrid = TestGridBlocked /\ pstart = V2i(1, 3) /\ pgoal = V2i(3, 3))
              => presult.tag = "Disconnected"

\* C6: for both topologies and every passability with finitely many passable points,
\* path terminates, with Disconnected iff the goal is not reachable from start by
\* topology steps onto passable points, and with Ok otherwise.
C6_Disconnected == [](C6_Result) /\ <>(pmode = "grid" => pc = "done")

\* test::fails_when_disconnected has returned Disconnected.
C6_Witness ==
    /\ pc = "done"
    /\ pgrid = TestGridBlocked
    /\ ptopo = "Linf"
    /\ pstart = V2i(1, 3)
    /\ pgoal = V2i(3, 3)
    /\ presult.tag = "Disconnected"

\* C7: on a fresh Region of passable default tiles, path_mut between two points of
\* different chunks returns Ok, and afterwards the chunk of every point of the
\* path, start included, is materialized: get(p) is Some for each.
C7_PathMutMaterializes ==
    (pc = "done" /\ pmode = "region_mut") =>
        /\ presult.tag = "Ok"
        /\ \A i \in 1 .. Len(ReturnedPath) :
              /\ FloorDiv(ReturnedPath[i]) \in DOMAIN grids
              /\ region_get(ReturnedPath[i]).tag = "Some"

\* C11: from_vec returns NegativeDim(dim) iff a component of dim is negative;
\* otherwise BadDim iff the number of elements differs from dim.x * dim.y;
\* otherwise Ok with the given origin and dim and the elements in their order.
C11_Construct ==
    gop.op = "from_vec" =>
        IF gop.dim[1] < 0 \/ gop.dim[2] < 0
        THEN gret = Res("NegativeDim", gop.dim) /\ grid = NoGrid
        ELSE IF Len(gop.v) # gop.dim[1] * gop.dim[2]
        THEN gret.tag = "BadDim" /\ grid = NoGrid
        ELSE /\ gret.tag = "Ok"
             /\ grid.origin = gop.origin
             /\ grid.dim = gop.dim
             /\ grid.array = gop.v

\* The passability predicate of the running search, read off the grid's array or
\* the Region's chunks: what allow answered for a point it was called on.
Accepted(p) ==
    IF pmode = "grid" THEN PassableAt(pgrid, p)
    ELSE /\ FloorDiv(p) \in DOMAIN grids
         /\ PassableAt(grids[FloorDiv(p)], p)

\* C12, the result: an Ok path is non-empty, runs from start to goal by single
\* steps of the topology, holds no point twice, and every point of it but start
\* was accepted by the passability predicate.
C12_Result ==
    (pc = "done" /\ presult.tag # "Disconnected") =>
        /\ presult.tag = "Ok"
        /\ Len(ReturnedPath) >= 1
        /\ ReturnedPath[1] = pstart
        /\ ReturnedPath[Len(ReturnedPath)] = pgoal
        /\ pstart = pgoal => ReturnedPath = <<pstart>>
        /\ \A i \in 1 .. Len(ReturnedPath) - 1 :
              VSub(ReturnedPath[i + 1], ReturnedPath[i]) \in TopoSteps(ptopo)
        /\ \A i \in 2 .. Len(ReturnedPath) : Accepted(ReturnedPath[i])
        /\ \A i, j \in 1 .. Len(ReturnedPath) :
              ReturnedPath[i] = ReturnedPath[j] => i = j

\* C12, the search: every predecessor link goes to a node of smaller cost, and
\* start never gets a predecessor.
C12_Links ==
    /\ pstart \notin DOMAIN back
    /\ \A n \in DOMAIN back :
          /\ n \in DOMAIN cost
          /\ back[n] \in DOMAIN cost
          /\ cost[n] >= cost[back[n]] + 1

\* C12: whenever path returns Ok(v), v leads from start to goal by topology steps
\* over accepted points without repetition (start itself need not be passable);
\* throughout the search cost[n] >= cost[back[n]] + 1 and start has no predecessor.
C12_PathShape == C12_Result /\ C12_Links

\* A path of three points was returned from an impassable start.
C12_Witness ==
    /\ pc = "done"
    /\ pmode = "grid"
    /\ presult.tag = "Ok"
    /\ Len(ReturnedPath) = 3
    /\ ~PassableAt(pgrid, pstart)
    /\ pstart \in DOMAIN cost

\* The number of points of a shortest sequence of topology steps from a point of
\* S to the goal over passable tiles of g, S being the points reached with k
\* points; 0 when there is none.
RECURSIVE ShortestFrom(_, _, _, _)
ShortestFrom(topo, g, S, k) ==
    LET N == S \cup {q \in {VAdd(p, d) : p \in S, d \in TopoSteps(topo)} : PassableAt(g, q)}
    IN  IF pgoal \in S THEN k
        ELSE IF N = S THEN 0
        ELSE ShortestFrom(topo, g, N, k + 1)

\* The number of points of a shortest path of the running query.  On a fresh
\* Region every tile is passable, so the distance is the norm of goal - start.
ShortestLen ==
    IF pmode = "grid" THEN ShortestFrom(ptopo, pgrid, {pstart}, 1)
    ELSE IF ptopo = "L1" THEN l1(VSub(pgoal, pstart)) + 1
    ELSE (IF Abs(pgoal[1] - pstart[1]) >= Abs(pgoal[2] - pstart[2])
          THEN Abs(pgoal[1] - pstart[1]) ELSE Abs(pgoal[2] - pstart[2])) + 1

\* C13: under L1 an Ok path is a shortest one: no sequence of axis-aligned unit
\* steps from start to goal through passable points has fewer points, whatever
\* the passability and the order in which equal priorities are popped.
C13_L1Shortest ==
    (pc = "done" /\ ptopo = "L1" /\ presult.tag = "Ok") =>
        /\ ShortestLen >= 1
        /\ Len(ReturnedPath) <= ShortestLen

\* A shortest detour around the blocked tile of the 4 x 3 grid was returned under
\* L1 while the queue held two entries for (0,0), the older one stale.
C13_Witness ==
    /\ pc = "done"
    /\ pmode = "grid"
    /\ ptopo = "L1"
    /\ pgrid = DetourGrid
    /\ pstart = V2i(0, 2)
    /\ pgoal = V2i(2, 0)
    /\ presult.tag = "Ok"
    /\ Len(ReturnedPath) = 5
    /\ ShortestLen = 5
    /\ {[node |-> V2i(0, 0), cost |-> 4], [node |-> V2i(0, 0), cost |-> 6]} \subseteq open

\* C14: under Linf the search stays complete but not optimal: Ok is returned
\* exactly when the goal is reachable and the path is never shorter than a
\* shortest one, yet on a small grid it can be strictly longer (C14_Witness).
C14_LinfComplete ==
    (pc = "done" /\ ptopo = "Linf") =>
        /\ presult.tag \in {"Ok", "Disconnected"}
        /\ pmode = "grid" => ((presult.tag = "Ok") <=> GoalReachable)
        /\ presult.tag = "Ok" =>
              /\ ShortestLen >= 1
              /\ Len(ReturnedPath) >= ShortestLen
              /\ (pmode = "grid" /\ pgrid # DetourGrid) => Len(ReturnedPath) = ShortestLen

\* On the 4 x 3 grid with (2,1) blocked, (3,0) -> (0,2) returned five points where
\* four suffice: (2,0), on the shortest path, is still queued with f = 1 + 4,
\* more than the four steps of the path returned.
C14_Witness ==
    /\ pc = "done"
    /\ ptopo = "Linf"
    /\ pgrid = DetourGrid
    /\ pstart = V2i(3, 0)
    /\ pgoal = V2i(0, 2)
    /\ presult = Ok(<<V2i(3, 0), V2i(3, 1), V2i(2, 2), V2i(1, 2), V2i(0, 2)>>)
    /\ ShortestLen = 4
    /\ [node |-> V2i(2, 0), cost |-> 5] \in open
    /\ 5 > Len(ReturnedPath) - 1

====
